---- MODULE Spec2Model ----
(***************************************************************************)
(* should_i_open_my_window: model of src/main.rs.                          *)
(*                                                                         *)
(* main() turns an hourly forecast (datetime, temperature, relative        *)
(* humidity) into two tables: the next 10 hourly samples from the current  *)
(* hour on, and the averages of the first 7 calendar days of the forecast. *)
(* Every row carries, for each of the 13 temperatures of TEMP_RANGE, the   *)
(* relative humidity the outdoor air would have at that temperature.       *)
(*                                                                         *)
(* f64 values are IEEE 754 binary64 values, computed bit for bit; time is   *)
(* counted in ticks, TicksPerHour to the hour, from midnight of day 0.     *)
(***************************************************************************)
EXTENDS Integers, Sequences, FiniteSets, TLC

(***************************************************************************)
(* Bounds of the explored inputs.                                          *)
(***************************************************************************)
\* Longest forecast.hourly of the regularly spaced family (the lengths
\* MaxLong - 1 and MaxLong are explored).
MaxLong == 12

\* Longest forecast.hourly of the free family (any order, any values).
MaxShort == 2

\* Resolution of the clock: ticks per hour.
TicksPerHour == 2

(***************************************************************************)
(* Program constants.                                                      *)
(***************************************************************************)
\* chrono: NaiveDateTime::date() changes every 24 hours.
HoursPerDay == 24

\* Variant: one row too many.
TakeHourlyOffByOne == 10 + 1

\* .take(10) of the hourly table.
TakeHourly == 10

\* .take(7) of the daily table.
TakeDaily == 7

\* Option: None is the empty sequence, Some(x) the sequence of x alone.
None == << >>

Some(x) == << x >>


(***************************************************************************)
(* The floating-point operations are one recursive evaluator, Eval: an     *)
(* operation is applied by name to the tuple of its arguments, and its     *)
(* body is the definition of the same name with the suffix Impl.           *)
(* Arguments are passed by value, as in the program: the evaluator looks   *)
(* at the argument tuple before it selects the body.                       *)
(***************************************************************************)
RECURSIVE Eval(_, _)

BigTrim(a) == Eval("BigTrim", << a >>)
BigAdd(a, b) == Eval("BigAdd", << a, b >>)
BigSub(a, b) == Eval("BigSub", << a, b >>)
BigShlLimbs(a, k) == Eval("BigShlLimbs", << a, k >>)
BigMulSmall(a, k) == Eval("BigMulSmall", << a, k >>)
BigMul(a, b) == Eval("BigMul", << a, b >>)
BigCmp(a, b) == Eval("BigCmp", << a, b >>)
BigShl(a, bits) == Eval("BigShl", << a, bits >>)
BigDivSmall(a, k) == Eval("BigDivSmall", << a, k >>)
BigShr(a, bits) == Eval("BigShr", << a, bits >>)
BitLenSmall(x) == Eval("BitLenSmall", << x >>)
BigBitLen(a) == Eval("BigBitLen", << a >>)
BigIsOdd(a) == Eval("BigIsOdd", << a >>)
BigDigit(r, v) == Eval("BigDigit", << r, v >>)
BigDivMod(a, v) == Eval("BigDivMod", << a, v >>)
BigSqrt(n) == Eval("BigSqrt", << n >>)
Round(s, n, e, sticky) == Eval("Round", << s, n, e, sticky >>)
FromInt(n) == Eval("FromInt", << n >>)
F64Neg(x) == Eval("F64Neg", << x >>)
AddFinite(x, y) == Eval("AddFinite", << x, y >>)
F64Add(x, y) == Eval("F64Add", << x, y >>)
F64Sub(x, y) == Eval("F64Sub", << x, y >>)
F64Mul(x, y) == Eval("F64Mul", << x, y >>)
F64Div(x, y) == Eval("F64Div", << x, y >>)
F64Sqrt(x) == Eval("F64Sqrt", << x >>)
Dec(t) == Eval("Dec", << t >>)
Theta(t) == Eval("Theta", << t >>)
CoefA(theta) == Eval("CoefA", << theta >>)
CoefB(theta) == Eval("CoefB", << theta >>)
CoefC(theta) == Eval("CoefC", << theta >>)
Root(a, b, c) == Eval("Root", << a, b, c >>)
Pow4(q) == Eval("Pow4", << q >>)
Region4(theta) == Eval("Region4", << theta >>)
p_sat(t) == Eval("p_sat", << t >>)
celsius_to_kelvin(celsius) == Eval("celsius_to_kelvin", << celsius >>)
celsius_sat_pres(celsius) == Eval("celsius_sat_pres", << celsius >>)
Fmt1(x) == Eval("Fmt1", << x >>)

(***************************************************************************)
(* Natural numbers of any size: sequences of limbs in base 2^14, least     *)
(* significant first, without leading zero limbs (0 is << >>).             *)
(***************************************************************************)
Base == 2 ^ 14

Limb(a, i) == IF i <= Len(a) THEN a[i] ELSE 0

\* a without its leading zero limbs.
BigTrimImpl(a) ==
    LET nz == {i \in 1..Len(a) : a[i] # 0}
    IN  IF nz = {} THEN << >>
        ELSE SubSeq(a, 1, CHOOSE i \in nz : \A j \in nz : j <= i)

RECURSIVE BigFromInt(_)
BigFromInt(n) ==
    IF n = 0 THEN << >> ELSE << n % Base >> \o BigFromInt(n \div Base)

\* a + b.  A carry enters limb i when a lower limb overflows and every limb
\* between the two passes the carry on.
BigAddImpl(a, b) ==
    LET n        == IF Len(a) > Len(b) THEN Len(a) ELSE Len(b)
        sum      == [i \in 1..(n + 1) |-> Limb(a, i) + Limb(b, i)]
        carry(i) == \E j \in 1..(i - 1) :
                        /\ sum[j] >= Base
                        /\ \A k \in (j + 1)..(i - 1) : sum[k] = Base - 1
    IN  BigTrim([i \in 1..(n + 1) |->
                    (sum[i] + (IF carry(i) THEN 1 ELSE 0)) % Base])

\* a - b, for a >= b.  A borrow enters limb i when a lower limb underflows
\* and every limb between the two passes the borrow on.
BigSubImpl(a, b) ==
    LET diff      == [i \in 1..Len(a) |-> a[i] - Limb(b, i)]
        borrow(i) == \E j \in 1..(i - 1) :
                         /\ diff[j] < 0
                         /\ \A k \in (j + 1)..(i - 1) : diff[k] = 0
    IN  BigTrim([i \in 1..Len(a) |->
                    (diff[i] - (IF borrow(i) THEN 1 ELSE 0) + Base) % Base])

BigShlLimbsImpl(a, k) == IF a = << >> THEN a ELSE [i \in 1..k |-> 0] \o a

\* a * k, for 0 <= k <= Base: the low halves of the limb products plus their
\* high halves one limb up.
BigMulSmallImpl(a, k) ==
    BigAdd([i \in 1..Len(a) |-> (a[i] * k) % Base],
           << 0 >> \o [i \in 1..Len(a) |-> (a[i] * k) \div Base])

RECURSIVE BigMulR(_, _, _)
BigMulR(a, b, j) ==
    IF j > Len(b) THEN << >>
    ELSE BigAdd(BigShlLimbs(BigMulSmall(a, b[j]), j - 1), BigMulR(a, b, j + 1))

BigMulImpl(a, b) == BigMulR(a, b, 1)

\* -1, 0 or 1 as a < b, a = b or a > b.
BigCmpImpl(a, b) ==
    IF Len(a) < Len(b) THEN -1
    ELSE IF Len(a) > Len(b) THEN 1
    ELSE LET d == {i \in 1..Len(a) : a[i] # b[i]}
             h == CHOOSE i \in d : \A j \in d : j <= i
         IN  IF d = {} THEN 0 ELSE IF a[h] < b[h] THEN -1 ELSE 1

\* a * 2^bits
BigShlImpl(a, bits) == BigShlLimbs(BigMulSmall(a, 2 ^ (bits % 14)), bits \div 14)

\* Quotient (most significant limb first) and remainder of a by 0 < k <= Base.
RECURSIVE BigDivSmallR(_, _, _, _)
BigDivSmallR(a, k, i, r) ==
    IF i = 0 THEN [q |-> << >>, r |-> r]
    ELSE LET t    == r * Base + a[i]
             rest == BigDivSmallR(a, k, i - 1, t % k)
         IN  [q |-> rest.q \o << t \div k >>, r |-> rest.r]

BigDivSmallImpl(a, k) ==
    LET d == BigDivSmallR(a, k, Len(a), 0)
    IN  [q |-> BigTrim(d.q), r |-> d.r]

\* Quotient and remainder of a by 2^bits.
BigShrImpl(a, bits) ==
    LET k == bits \div 14
        p == 2 ^ (bits % 14)
        n == IF Len(a) > k THEN Len(a) - k ELSE 0
    IN  [q |-> BigTrim([i \in 1..n |->
                   (a[k + i] \div p) + (Limb(a, k + i + 1) % p) * (Base \div p)]),
         r |-> BigTrim([i \in 1..(k + 1) |->
                   IF i <= k THEN Limb(a, i) ELSE Limb(a, i) % p])]

BitLenSmallImpl(x) == CHOOSE k \in 1..14 : 2 ^ (k - 1) <= x /\ x < 2 ^ k

BigBitLenImpl(a) ==
    IF a = << >> THEN 0 ELSE 14 * (Len(a) - 1) + BitLenSmall(a[Len(a)])

BigIsOddImpl(a) == a # << >> /\ a[1] % 2 = 1

\* Long division: the quotient digit for r < v * Base, estimated from the two
\* leading limbs and corrected downwards.
RECURSIVE BigDigitFix(_, _, _, _)
BigDigitFix(r, v, qhat, p) ==
    IF BigCmp(p, r) > 0 THEN BigDigitFix(r, v, qhat - 1, BigSub(p, v))
    ELSE [q |-> qhat, r |-> BigSub(r, p)]

BigDigitImpl(r, v) ==
    IF BigCmp(r, v) < 0 THEN [q |-> 0, r |-> r]
    ELSE LET n   == Len(v)
             est == (Limb(r, n + 1) * Base + Limb(r, n)) \div v[n]
             q0  == IF est > Base - 1 THEN Base - 1 ELSE est
         IN  BigDigitFix(r, v, q0, BigMulSmall(v, q0))

\* The limbs i, i - 1, .. 1 of a brought down one by one onto the remainder
\* r; q: the quotient digits found so far.
RECURSIVE BigDivModR(_, _, _, _, _)
BigDivModR(a, v, i, q, r) ==
    IF i = 0 THEN [q |-> q, r |-> r]
    ELSE LET d == BigDigit(BigTrim(<< a[i] >> \o r), v)
         IN  IF d.q = 0 /\ q = << >> THEN BigDivModR(a, v, i - 1, q, d.r)
             ELSE BigDivModR(a, v, i - 1, << d.q >> \o q, d.r)

\* Quotient of a by v # 0, and whether the division is exact.
BigDivModImpl(a, v) ==
    LET s  == 14 - BitLenSmall(v[Len(v)])
        an == BigShl(a, s)
        vn == BigShl(v, s)
        i0 == IF Len(an) < Len(vn) THEN 0 ELSE Len(an) - Len(vn) + 1
        d  == BigDivModR(an, vn, i0, << >>, SubSeq(an, i0 + 1, Len(an)))
    IN  [q |-> d.q, exact |-> d.r = << >>]

\* Integer square root (Newton's iteration from above).
RECURSIVE BigSqrtR(_, _)
BigSqrtR(n, x) ==
    LET y == BigShr(BigAdd(x, BigDivMod(n, x).q), 1).q
    IN  IF BigCmp(y, x) < 0 THEN BigSqrtR(n, y) ELSE x

BigSqrtImpl(n) ==
    IF n = << >> THEN n
    ELSE BigSqrtR(n, BigShl(<< 1 >>, (BigBitLen(n) + 1) \div 2))

\* Decimal digits of a, most significant first (<< >> for 0).
RECURSIVE BigDigits(_)
BigDigits(a) ==
    IF a = << >> THEN << >>
    ELSE LET d == BigDivSmall(a, 10) IN BigDigits(d.q) \o << d.r >>

(***************************************************************************)
(* f64: IEEE 754 binary64 with round to nearest, ties to even.  A finite   *)
(* value is (-1)^s * m * 2^e with m < 2^53, m >= 2^52 unless e = -1074     *)
(* (subnormal) or m = 0 (zero, e = 0).                                     *)
(***************************************************************************)
F64(s, e, m) == [k |-> "fin", s |-> s, e |-> e, m |-> m]

Zero(s) == F64(s, 0, << >>)

Inf(s) == [k |-> "inf", s |-> s, e |-> 0, m |-> << >>]

NaN == [k |-> "nan", s |-> 0, e |-> 0, m |-> << >>]

IsFinite(x) == x.k = "fin"

IsZero(x) == x.k = "fin" /\ x.m = << >>

\* The f64 nearest to (-1)^s * n * 2^e, n > 0; sticky: the exact value is a
\* little above n * 2^e (by less than 2^e).
RoundImpl(s, n, e, sticky) ==
    LET L  == BigBitLen(n)
        d0 == L - 53
        d  == IF -1074 - e > d0 THEN -1074 - e ELSE d0
    IN  IF d <= 0
        THEN LET t == IF 53 - L < e + 1074 THEN 53 - L ELSE e + 1074
             IN  IF e - t + 52 > 1023 THEN Inf(s)
                 ELSE F64(s, e - t, BigShl(n, t))
        ELSE LET sh   == BigShr(n, d)
                 c    == BigCmp(sh.r, BigShl(<< 1 >>, d - 1))
                 up   == c > 0 \/ (c = 0 /\ (sticky \/ BigIsOdd(sh.q)))
                 q    == IF up THEN BigAdd(sh.q, << 1 >>) ELSE sh.q
                 over == BigBitLen(q) > 53
                 m    == IF over THEN BigShr(q, 1).q ELSE q
                 e2   == IF over THEN e + d + 1 ELSE e + d
             IN  IF m = << >> THEN Zero(s)
                 ELSE IF e2 + 52 > 1023 THEN Inf(s)
                 ELSE F64(s, e2, m)

\* An integer as f64 (exact below 2^31).
FromIntImpl(n) ==
    IF n = 0 THEN Zero(0)
    ELSE IF n < 0 THEN Round(1, BigFromInt(-n), 0, FALSE)
    ELSE Round(0, BigFromInt(n), 0, FALSE)

F64NegImpl(x) == [x EXCEPT !.s = 1 - x.s]

\* Sum of two finite values that are not zero.
AddFiniteImpl(x, y) ==
    LET e  == IF x.e < y.e THEN x.e ELSE y.e
        ex == x.e + BigBitLen(x.m)
        ey == y.e + BigBitLen(y.m)
    IN  IF ex - ey > 60 THEN x
        ELSE IF ey - ex > 60 THEN y
        ELSE LET a == BigShl(x.m, x.e - e)
                 b == BigShl(y.m, y.e - e)
                 c == BigCmp(a, b)
             IN  IF x.s = y.s THEN Round(x.s, BigAdd(a, b), e, FALSE)
                 ELSE IF c = 0 THEN Zero(0)
                 ELSE IF c > 0 THEN Round(x.s, BigSub(a, b), e, FALSE)
                 ELSE Round(y.s, BigSub(b, a), e, FALSE)

F64AddImpl(x, y) ==
    IF x.k = "nan" \/ y.k = "nan" THEN NaN
    ELSE IF x.k = "inf" THEN (IF y.k = "inf" /\ y.s # x.s THEN NaN ELSE x)
    ELSE IF y.k = "inf" THEN y
    ELSE IF IsZero(x) THEN (IF IsZero(y) /\ x.s # y.s THEN Zero(0) ELSE y)
    ELSE IF IsZero(y) THEN x
    ELSE AddFinite(x, y)

F64SubImpl(x, y) == F64Add(x, F64Neg(y))

F64MulImpl(x, y) ==
    LET s == (x.s + y.s) % 2
    IN  IF x.k = "nan" \/ y.k = "nan" THEN NaN
        ELSE IF x.k = "inf" \/ y.k = "inf"
             THEN (IF IsZero(x) \/ IsZero(y) THEN NaN ELSE Inf(s))
        ELSE IF IsZero(x) \/ IsZero(y) THEN Zero(s)
        ELSE Round(s, BigMul(x.m, y.m), x.e + y.e, FALSE)

F64DivImpl(x, y) ==
    LET s == (x.s + y.s) % 2
    IN  IF x.k = "nan" \/ y.k = "nan" THEN NaN
        ELSE IF x.k = "inf" THEN (IF y.k = "inf" THEN NaN ELSE Inf(s))
        ELSE IF y.k = "inf" THEN Zero(s)
        ELSE IF IsZero(y) THEN (IF IsZero(x) THEN NaN ELSE Inf(s))
        ELSE IF IsZero(x) THEN Zero(s)
        ELSE LET t == 56 + BigBitLen(y.m) - BigBitLen(x.m)
                 d == BigDivMod(BigShl(x.m, t), y.m)
             IN  Round(s, d.q, x.e - y.e - t, ~ d.exact)

F64SqrtImpl(x) ==
    IF x.k = "nan" THEN NaN
    ELSE IF IsZero(x) THEN x
    ELSE IF x.s = 1 THEN NaN
    ELSE IF x.k = "inf" THEN x
    ELSE LET t0 == 112 - BigBitLen(x.m)
             t  == IF (x.e - t0) % 2 = 0 THEN t0 ELSE t0 + 1
             n  == BigShl(x.m, t)
             r  == BigSqrt(n)
         IN  Round(0, r, (x.e - t) \div 2, BigMul(r, r) # n)

\* A decimal with one digit after the point, given in tenths: 163 is 16.3.
DecImpl(t) == F64Div(FromInt(t), FromInt(10))

(***************************************************************************)
(* rust_steam::p_sat: the saturation pressure of IAPWS-IF97 (region 4,     *)
(* equation 30) at t kelvin, in pascal, evaluated in f64.  The crate is a  *)
(* dependency whose source is not part of the repository: the equation is  *)
(* taken from the standard, each operation rounded as written below.       *)
(***************************************************************************)
\* The coefficients n1 .. n10 of the equation, as the f64 values of their
\* decimal literals (sign, exponent, mantissa in limbs).
IF97_N ==
    << F64(0, -42, << 2117, 5705, 854, 1167 >>),      \* n1 = 0.11670521452767e4
       F64(1, -33, << 14822, 5652, 7845, 1414 >>),    \* n2 = -0.72421316703206e6
       F64(1, -48, << 6869, 2114, 11898, 1092 >>),    \* n3 = -0.17073846940092e2
       F64(0, -39, << 15562, 16230, 9880, 1502 >>),   \* n4 = 0.12020824702470e5
       F64(1, -31, << 14469, 4224, 6488, 1578 >>),    \* n5 = -0.32325550322333e7
       F64(0, -49, << 3179, 14075, 2193, 1909 >>),    \* n6 = 0.14915108613530e2
       F64(1, -40, << 12467, 7459, 13376, 1205 >>),   \* n7 = -0.48232657361591e4
       F64(0, -34, << 4581, 15514, 7769, 1582 >>),    \* n8 = 0.40511340542057e6
       F64(1, -55, << 9742, 6050, 4051, 1954 >>),     \* n9 = -0.23855557567849
       F64(0, -43, << 3028, 13401, 5745, 1300 >>) >>  \* n10 = 0.65017534844798e3

\* theta of equation 29: t + n9 / (t - n10).
ThetaImpl(t) == F64Add(t, F64Div(IF97_N[9], F64Sub(t, IF97_N[10])))

\* The coefficients of the quadratic: A = theta^2 + n1 theta + n2,
\* B = n3 theta^2 + n4 theta + n5, C = n6 theta^2 + n7 theta + n8.
CoefAImpl(theta) ==
    F64Add(F64Add(F64Mul(theta, theta), F64Mul(IF97_N[1], theta)), IF97_N[2])

CoefBImpl(theta) ==
    F64Add(F64Add(F64Mul(IF97_N[3], F64Mul(theta, theta)),
                  F64Mul(IF97_N[4], theta)),
           IF97_N[5])

CoefCImpl(theta) ==
    F64Add(F64Add(F64Mul(IF97_N[6], F64Mul(theta, theta)),
                  F64Mul(IF97_N[7], theta)),
           IF97_N[8])

\* 2C / (-B + sqrt(B^2 - 4AC))
RootImpl(a, b, c) ==
    F64Div(F64Mul(FromInt(2), c),
           F64Add(F64Neg(b),
                  F64Sqrt(F64Sub(F64Mul(b, b),
                                 F64Mul(F64Mul(FromInt(4), a), c)))))

Pow4Impl(q) == F64Mul(F64Mul(q, q), F64Mul(q, q))

\* Equation 30, in megapascal.
Region4Impl(theta) == Pow4(Root(CoefA(theta), CoefB(theta), CoefC(theta)))

p_satImpl(t) == F64Mul(Region4(Theta(t)), FromInt(1000000))

\* 273.15
KelvinOffset == F64Div(FromInt(27315), FromInt(100))

celsius_to_kelvinImpl(celsius) == F64Add(celsius, KelvinOffset)

celsius_sat_presImpl(celsius) == p_sat(celsius_to_kelvin(celsius))

(***************************************************************************)
(* Formatting with one digit after the point ("{:.1}"): the exact value is *)
(* rounded to the nearest tenth, ties to even.  The text is given by its   *)
(* sign, the decimal digits before the point and the digit after it.       *)
(***************************************************************************)
Text(neg, int, frac, special) ==
    [neg |-> neg, int |-> int, frac |-> frac, special |-> special]

Fmt1Impl(x) ==
    IF x.k = "nan" THEN Text(FALSE, << >>, 0, "NaN")
    ELSE IF x.k = "inf" THEN Text(x.s = 1, << >>, 0, "inf")
    ELSE LET t  == BigMulSmall(x.m, 10)
             sh == IF x.e >= 0 THEN [q |-> BigShl(t, x.e), r |-> << >>]
                   ELSE BigShr(t, -x.e)
             c  == IF x.e >= 0 THEN -1
                   ELSE BigCmp(sh.r, BigShl(<< 1 >>, -x.e - 1))
             up == c > 0 \/ (c = 0 /\ BigIsOdd(sh.q))
             q  == IF up THEN BigAdd(sh.q, << 1 >>) ELSE sh.q
             d  == BigDivSmall(q, 10)
         IN  Text(x.s = 1,
                  IF d.q = << >> THEN << 0 >> ELSE BigDigits(d.q),
                  d.r, "")

Eval(op, x) ==
    IF Len(x) = 1 THEN
        CASE op = "BigTrim" -> BigTrimImpl(x[1])
          [] op = "BitLenSmall" -> BitLenSmallImpl(x[1])
          [] op = "BigBitLen" -> BigBitLenImpl(x[1])
          [] op = "BigIsOdd" -> BigIsOddImpl(x[1])
          [] op = "BigSqrt" -> BigSqrtImpl(x[1])
          [] op = "FromInt" -> FromIntImpl(x[1])
          [] op = "F64Neg" -> F64NegImpl(x[1])
          [] op = "F64Sqrt" -> F64SqrtImpl(x[1])
          [] op = "Dec" -> DecImpl(x[1])
          [] op = "Theta" -> ThetaImpl(x[1])
          [] op = "CoefA" -> CoefAImpl(x[1])
          [] op = "CoefB" -> CoefBImpl(x[1])
          [] op = "CoefC" -> CoefCImpl(x[1])
          [] op = "Pow4" -> Pow4Impl(x[1])
          [] op = "Region4" -> Region4Impl(x[1])
          [] op = "p_sat" -> p_satImpl(x[1])
          [] op = "celsius_to_kelvin" -> celsius_to_kelvinImpl(x[1])
          [] op = "celsius_sat_pres" -> celsius_sat_presImpl(x[1])
          [] op = "Fmt1" -> Fmt1Impl(x[1])
    ELSE IF Len(x) = 2 THEN
        CASE op = "BigAdd" -> BigAddImpl(x[1], x[2])
          [] op = "BigSub" -> BigSubImpl(x[1], x[2])
          [] op = "BigShlLimbs" -> BigShlLimbsImpl(x[1], x[2])
          [] op = "BigMulSmall" -> BigMulSmallImpl(x[1], x[2])
          [] op = "BigMul" -> BigMulImpl(x[1], x[2])
          [] op = "BigCmp" -> BigCmpImpl(x[1], x[2])
          [] op = "BigShl" -> BigShlImpl(x[1], x[2])
          [] op = "BigDivSmall" -> BigDivSmallImpl(x[1], x[2])
          [] op = "BigShr" -> BigShrImpl(x[1], x[2])
          [] op = "BigDigit" -> BigDigitImpl(x[1], x[2])
          [] op = "BigDivMod" -> BigDivModImpl(x[1], x[2])
          [] op = "AddFinite" -> AddFiniteImpl(x[1], x[2])
          [] op = "F64Add" -> F64AddImpl(x[1], x[2])
          [] op = "F64Sub" -> F64SubImpl(x[1], x[2])
          [] op = "F64Mul" -> F64MulImpl(x[1], x[2])
          [] op = "F64Div" -> F64DivImpl(x[1], x[2])
    ELSE IF Len(x) = 3 THEN
        CASE op = "Root" -> RootImpl(x[1], x[2], x[3])
    ELSE
        CASE op = "Round" -> RoundImpl(x[1], x[2], x[3], x[4])

(***************************************************************************)
(* Civil time.                                                             *)
(***************************************************************************)
TicksPerDay == HoursPerDay * TicksPerHour

Time(day, hour, tick) == (day * HoursPerDay + hour) * TicksPerHour + tick

\* NaiveDateTime::date()
DateOf(datetime) == datetime \div TicksPerDay

\* DurationRound::duration_trunc(TimeDelta::hours(1))
duration_trunc(datetime) == datetime - (datetime % TicksPerHour)

\* format("%a %H:%M"): weekday, hour and minute; the date itself is dropped.
FormatHour(datetime) ==
    << DateOf(datetime) % 7,
       (datetime \div TicksPerHour) % HoursPerDay,
       ((datetime % TicksPerHour) * 60) \div TicksPerHour >>

\* format("%A, %b %d"): weekday and day of the year (day 0 is a Monday,
\* 1 January); the year is dropped.
FormatDate(date) == << date % 7, date % 365 >>


(***************************************************************************)
(* The cells.                                                              *)
(***************************************************************************)
\* Variant: a value shown with three digits or more before the point is
\* shown as 100.0.
rh_cell_clamped(rh) ==
    << IF ~ Fmt1(rh).neg /\ Len(Fmt1(rh).int) >= 3 THEN Fmt1(FromInt(100))
       ELSE Fmt1(rh),
       "%" >>

rh_cell(rh) == << Fmt1(rh), "%" >>

(***************************************************************************)
(* The reference temperatures and the forecast items.                      *)
(***************************************************************************)
\* The literals of TEMP_RANGE, in tenths of a degree.
TEMP_RANGE_TENTHS ==
    << 160, 165, 170, 175, 180, 185, 190, 195, 200, 205, 210, 215, 220 >>

TEMP_RANGE == [i \in DOMAIN TEMP_RANGE_TENTHS |-> Dec(TEMP_RANGE_TENTHS[i])]

DOC_STR == "Opening the window will bring indoor humidity closer to the value indicated in the column corresponding to the indoor temperature"

\* A ForecastResultHourly: its datetime and what as_f64() yields for its two
\* values, Some(f64) or None for a value that is missing or not a number.
ApiItem(datetime, t, rh) ==
    [datetime |-> datetime,
     values   |-> [temperature_2m |-> t, relative_humidity_2m |-> rh]]

\* extract_temp_rh panics on item: one of the two unwrap() finds None.
ExtractPanics(item) ==
    \/ item.values.temperature_2m = None
    \/ item.values.relative_humidity_2m = None

extract_temp_rh(item) ==
    << item.values.temperature_2m[1], item.values.relative_humidity_2m[1] >>

\* ForeCastItem::from_api
from_api(api_item) ==
    LET e == extract_temp_rh(api_item)
    IN  [datetime_repr     |-> FormatHour(api_item.datetime),
         temperature       |-> e[1],
         relative_humidity |-> e[2]]

(***************************************************************************)
(* Iterator adaptors of main, as sequences of indices into the input.      *)
(***************************************************************************)
Min(a, b) == IF a < b THEN a ELSE b

\* forecast.hourly.iter().flatten()
Flatten(h) == IF h = None THEN << >> ELSE h[1]

\* Variant: an item at the threshold itself is dropped too.
SkipWhileInclusive(s, threshold) ==
    LET ok == {i \in 1..Len(s) : ~ (s[i].datetime <= threshold)}
    IN  IF ok = {} THEN Len(s)
        ELSE (CHOOSE i \in ok : \A j \in ok : i <= j) - 1

\* Number of items skip_while drops: those before the first one that is
\* not earlier than the threshold.
SkipWhile(s, threshold) ==
    LET ok == {i \in 1..Len(s) : ~ (s[i].datetime < threshold)}
    IN  IF ok = {} THEN Len(s)
        ELSE (CHOOSE i \in ok : \A j \in ok : i <= j) - 1

\* Variant: filter instead of skip_while.
HourlyForecastFilter(s, threshold) ==
    LET ok == {i \in 1..Len(s) : ~ (s[i].datetime < threshold)}
        nth(k) == CHOOSE i \in ok : Cardinality({j \in ok : j < i}) = k - 1
    IN  [k \in 1..Min(TakeHourly, Cardinality(ok)) |-> nth(k)]

\* Indices of the items of hourly_forecast: skip_while(..).take(10)
HourlyForecast(s, threshold) ==
    LET k == SkipWhile(s, threshold)
    IN  [i \in 1..Min(TakeHourly, Len(s) - k) |-> k + i]

\* Variant: one group per calendar day from the first date to the last, a
\* day without items giving an empty group.
ChunkByCalendar(s) ==
    LET dates == {DateOf(s[i].datetime) : i \in 1..Len(s)}
        lo == CHOOSE D \in dates : \A E \in dates : D <= E
        hi == CHOOSE D \in dates : \A E \in dates : E <= D
        of(D) == {i \in 1..Len(s) : DateOf(s[i].datetime) = D}
    IN  IF s = << >> THEN << >>
        ELSE [k \in 1..(hi - lo + 1) |->
                LET D == lo + k - 1
                IN  [key   |-> D,
                     first |-> IF of(D) = {} THEN 1
                               ELSE CHOOSE i \in of(D) : \A j \in of(D) : i <= j,
                     last  |-> IF of(D) = {} THEN 0
                               ELSE CHOOSE i \in of(D) : \A j \in of(D) : j <= i]]

\* chunk_by(|item| item.datetime.date()): the maximal runs of consecutive
\* items with the same date, as [key, first, last].
ChunkBy(s) ==
    LET starts == {i \in 1..Len(s) :
                     i = 1 \/ DateOf(s[i].datetime) # DateOf(s[i - 1].datetime)}
        nth(k) == CHOOSE i \in starts :
                     Cardinality({j \in starts : j < i}) = k - 1
    IN  [k \in 1..Cardinality(starts) |->
            [key   |-> DateOf(s[nth(k)].datetime),
             first |-> nth(k),
             last  |-> IF k = Cardinality(starts) THEN Len(s)
                       ELSE nth(k + 1) - 1]]

\* The groups daily_forcast_avg asks for: .take(7)
DailyGroups(s) ==
    LET g == ChunkBy(s)
    IN  [k \in 1..Min(TakeDaily, Len(g)) |-> g[k]]

GroupItems(s, g) == [i \in 1..(g.last - g.first + 1) |-> s[g.first + i - 1]]

(***************************************************************************)
(* average_daily                                                           *)
(***************************************************************************)
\* The loop of average_daily: count and the two sums after the last item.
RECURSIVE AverageLoop(_, _)
AverageLoop(forcast, acc) ==
    IF forcast = << >> THEN acc
    ELSE LET e == extract_temp_rh(Head(forcast))
         IN  AverageLoop(Tail(forcast),
                 [count             |-> F64Add(acc.count, FromInt(1)),
                  temperature       |-> F64Add(acc.temperature, e[1]),
                  relative_humidity |-> F64Add(acc.relative_humidity, e[2])])

AverageInit ==
    [count |-> Zero(0), temperature |-> Zero(0), relative_humidity |-> Zero(0)]

\* The two divisions by count and the ForeCastItem made of the means.
Means(date, acc) ==
    [datetime_repr     |-> FormatDate(date),
     temperature       |-> F64Div(acc.temperature, acc.count),
     relative_humidity |-> F64Div(acc.relative_humidity, acc.count)]

\* Variant: the sum of the relative humidities is not divided.
average_daily_undivided(date, forcast) ==
    LET acc == AverageLoop(forcast, AverageInit)
    IN  [datetime_repr     |-> FormatDate(date),
         temperature       |-> F64Div(acc.temperature, acc.count),
         relative_humidity |-> acc.relative_humidity]

average_daily(date, forcast) == Means(date, AverageLoop(forcast, AverageInit))

\* average_daily panics: extract_temp_rh panics on an item of the group.
AveragePanics(forcast) == \E i \in 1..Len(forcast) : ExtractPanics(forcast[i])

(***************************************************************************)
(* print_one_table                                                         *)
(***************************************************************************)
sat_press == [i \in DOMAIN TEMP_RANGE |-> celsius_sat_pres(TEMP_RANGE[i])]

\* Variant: the columns are filled from the last reference temperature down.
ProjectReversed(temperature, relative_humidity) ==
    LET forecast_sat_pres       == celsius_sat_pres(temperature)
        forecast_vapor_pressure == F64Mul(relative_humidity, forecast_sat_pres)
    IN  [i \in DOMAIN sat_press |->
            F64Div(forecast_vapor_pressure, sat_press[Len(TEMP_RANGE_TENTHS) + 1 - i])]

\* Variant: the relative humidity is taken as a fraction, so the result is a
\* fraction instead of a percentage.
ProjectFraction(temperature, relative_humidity) ==
    LET forecast_sat_pres       == celsius_sat_pres(temperature)
        forecast_vapor_pressure ==
            F64Mul(F64Div(relative_humidity, FromInt(100)), forecast_sat_pres)
    IN  [i \in DOMAIN sat_press |-> F64Div(forecast_vapor_pressure, sat_press[i])]

\* The values rh of the inner loop, one per reference temperature.
Project(temperature, relative_humidity) ==
    LET forecast_sat_pres       == celsius_sat_pres(temperature)
        forecast_vapor_pressure == F64Mul(relative_humidity, forecast_sat_pres)
    IN  [i \in DOMAIN sat_press |-> F64Div(forecast_vapor_pressure, sat_press[i])]

Header(name) ==
    << name >> \o [i \in DOMAIN TEMP_RANGE |-> << Fmt1(TEMP_RANGE[i]), "C" >>]

\* One row of the table: the label cell and one cell per reference
\* temperature, rh being the values of the inner loop.
Row(forecast_item, rh) ==
    << << forecast_item.datetime_repr, Fmt1(forecast_item.temperature) >> >>
    \o [i \in DOMAIN rh |-> rh_cell(rh[i])]

\* The forecast item of one iteration of the outer loop, the values of its
\* inner loop and the row added to the table.
Iteration(forecast_item, rh) ==
    [item |-> forecast_item, rh |-> rh, row |-> Row(forecast_item, rh)]

\* One iteration of the outer loop of print_one_table.
LoopBody(forecast_item) ==
    Iteration(forecast_item,
              Project(forecast_item.temperature, forecast_item.relative_humidity))

(***************************************************************************)
(* The forecasts and the instants explored.                                *)
(***************************************************************************)
\* (temperature in tenths of a degree, relative humidity in percent)
Weather ==
    << [t |-> 220, rh |-> 50], [t |-> 180, rh |-> 70], [t |-> 250, rh |-> 80],
       [t |-> 125, rh |-> 93], [t |-> 163, rh |-> 41], [t |-> 206, rh |-> 64],
       [t |-> -50, rh |-> 85], [t |-> 300, rh |-> 40] >>

\* The f64 of a JSON number with one digit after the point, given in tenths,
\* and of a whole JSON number, if there is one.
Tenths(t) == IF t = None THEN None ELSE Some(Dec(t[1]))

Whole(n) == IF n = None THEN None ELSE Some(FromInt(n[1]))

\* n items from start on, gap ticks apart, strictly ascending; the item at
\* position bad (if any) lacks its temperature (odd position) or its
\* relative humidity (even position).
LongInput(start, gap, n, off, bad) ==
    [i \in 1..n |->
        LET w == Weather[((i + off) % Len(Weather)) + 1]
        IN  ApiItem(start + (i - 1) * gap,
                    Tenths(IF i = bad /\ i % 2 = 1 THEN None ELSE Some(w.t)),
                    Whole(IF i = bad /\ i % 2 = 0 THEN None ELSE Some(w.rh)))]

\* The regularly spaced forecasts: hourly within one day, and 6, 18 and 24
\* hours apart across several days.
LongShapes ==
    {[start |-> Time(1, 9, 0),  gap |-> TicksPerHour,      off |-> 0],
     [start |-> Time(0, 17, 0), gap |-> 6 * TicksPerHour,  off |-> 2],
     [start |-> Time(0, 23, 0), gap |-> 18 * TicksPerHour, off |-> 0],
     [start |-> Time(0, 23, 0), gap |-> TicksPerDay,       off |-> 2]}

\* Positions of the item that lacks a value (0: every item is complete).
BadPositions == {0, 2, MaxLong - 1}

LongInputs ==
    {LongInput(sh.start, sh.gap, n, sh.off, bad) :
        sh \in LongShapes, n \in (MaxLong - 1)..MaxLong, bad \in BadPositions}

ShortItems ==
    {ApiItem(x.datetime, Tenths(x.t), Whole(x.rh)) :
        x \in {[datetime |-> Time(1, 9, 0),  t |-> Some(220), rh |-> Some(50)],
               [datetime |-> Time(1, 10, 0), t |-> Some(180), rh |-> Some(70)],
               [datetime |-> Time(1, 10, 0), t |-> Some(180), rh |-> None],
               [datetime |-> Time(3, 8, 0),  t |-> Some(200), rh |-> Some(63)]}}

\* Every sequence of at most MaxShort items, in any order.
ShortInputs == UNION {[1..k -> ShortItems] : k \in 0..MaxShort}

NowSet == {Time(0, 23, 1), Time(1, 10, 1), Time(3, 0, 0)}

(***************************************************************************)
(* State.                                                                  *)
(***************************************************************************)
VARIABLES
    hourly,     \* forecast.hourly: None or Some(items of the forecast)
    now,        \* chrono::offset::Local::now().naive_local()
    pc,         \* "hourly", "daily", "done" or "panicked"
    t_h,        \* the hourly table: header and rows
    t_d,        \* the daily table
    log_h,      \* per hourly row: index of its item, forecast_item, rh values
    log_d,      \* per daily row: its group, count, forecast_item, rh values
    stdout,     \* what println! has written
    panic_src   \* index of the item extract_temp_rh panicked on, 0 if none

vars == << hourly, now, pc, t_h, t_d, log_h, log_d, stdout, panic_src >>

this_day_and_hour == duration_trunc(now)

NewTable == [header |-> << >>, rows |-> << >>]

Init ==
    /\ hourly \in {None} \cup {Some(s) : s \in LongInputs \cup ShortInputs}
    /\ now \in NowSet
    /\ pc = "hourly"
    /\ t_h = [header |-> Header("Hourly"), rows |-> << >>]
    /\ t_d = NewTable
    /\ log_h = << >>
    /\ log_d = << >>
    /\ stdout = << >>
    /\ panic_src = 0

(***************************************************************************)
(* print_one_table(hourly_forecast, Hourly): one iteration of the loop     *)
(* over the items of skip_while(..).map(from_api).take(10).                *)
(***************************************************************************)
\* table.add_row of the hourly table, for the item of index src.
AddHourlyRow(src, it) ==
    /\ t_h' = [t_h EXCEPT !.rows = Append(@, it.row)]
    /\ log_h' = Append(log_h, [src |-> src, item |-> it.item, rh |-> it.rh])

HourlyRow ==
    /\ pc = "hourly"
    /\ LET s  == Flatten(hourly)
           hf == HourlyForecast(s, this_day_and_hour)
           i  == Len(t_h.rows) + 1
       IN  /\ i <= Len(hf)
           /\ ~ ExtractPanics(s[hf[i]])
           /\ AddHourlyRow(hf[i], LoopBody(from_api(s[hf[i]])))
    /\ UNCHANGED << hourly, now, pc, t_d, log_d, stdout, panic_src >>

\* from_api -> extract_temp_rh -> unwrap() on None
HourlyPanic ==
    /\ pc = "hourly"
    /\ LET s  == Flatten(hourly)
           hf == HourlyForecast(s, this_day_and_hour)
           i  == Len(t_h.rows) + 1
       IN  /\ i <= Len(hf)
           /\ ExtractPanics(s[hf[i]])
           /\ panic_src' = hf[i]
    /\ pc' = "panicked"
    /\ UNCHANGED << hourly, now, t_h, t_d, log_h, log_d, stdout >>

\* The iterator is exhausted: the table is returned and printed after
\* DOC_STR, and the daily table is started.
PrintHourly ==
    /\ pc = "hourly"
    /\ Len(t_h.rows) = Len(HourlyForecast(Flatten(hourly), this_day_and_hour))
    /\ stdout' = stdout \o << DOC_STR, t_h >>
    /\ t_d' = [header |-> Header("Daily"), rows |-> << >>]
    /\ pc' = "daily"
    /\ UNCHANGED << hourly, now, t_h, log_h, log_d, panic_src >>

(***************************************************************************)
(* print_one_table(daily_forcast_avg, Daily): one iteration of the loop    *)
(* over chunk_by(date).map(average_daily).take(7).                         *)
(***************************************************************************)
\* table.add_row of the daily table, for the group g of count items.
AddDailyRow(g, count, it) ==
    /\ t_d' = [t_d EXCEPT !.rows = Append(@, it.row)]
    /\ log_d' = Append(log_d,
           [group |-> g, count |-> count, item |-> it.item, rh |-> it.rh])

DailyRow ==
    /\ pc = "daily"
    /\ LET s  == Flatten(hourly)
           dg == DailyGroups(s)
           k  == Len(t_d.rows) + 1
       IN  /\ k <= Len(dg)
           /\ ~ AveragePanics(GroupItems(s, dg[k]))
           /\ AddDailyRow(dg[k],
                          AverageLoop(GroupItems(s, dg[k]), AverageInit).count,
                          LoopBody(average_daily(dg[k].key, GroupItems(s, dg[k]))))
    /\ UNCHANGED << hourly, now, pc, t_h, log_h, stdout, panic_src >>

\* average_daily -> extract_temp_rh -> unwrap() on None
DailyPanic ==
    /\ pc = "daily"
    /\ LET s  == Flatten(hourly)
           dg == DailyGroups(s)
           k  == Len(t_d.rows) + 1
       IN  /\ k <= Len(dg)
           /\ AveragePanics(GroupItems(s, dg[k]))
           /\ panic_src' = CHOOSE i \in dg[k].first..dg[k].last :
                             /\ ExtractPanics(s[i])
                             /\ \A j \in dg[k].first..(i - 1) : ~ ExtractPanics(s[j])
    /\ pc' = "panicked"
    /\ UNCHANGED << hourly, now, t_h, t_d, log_h, log_d, stdout >>

PrintDaily ==
    /\ pc = "daily"
    /\ Len(t_d.rows) = Len(DailyGroups(Flatten(hourly)))
    /\ stdout' = Append(stdout, t_d)
    /\ pc' = "done"
    /\ UNCHANGED << hourly, now, t_h, t_d, log_h, log_d, panic_src >>

Next ==
    \/ HourlyRow
    \/ HourlyPanic
    \/ PrintHourly
    \/ DailyRow
    \/ DailyPanic
    \/ PrintDaily

Spec == Init /\ [][Next]_vars
(***************************************************************************)
(* Vocabulary of the properties, stated on the input itself.               *)
(***************************************************************************)
Samples == IF hourly = << >> THEN << >> ELSE hourly[1]

Indices == 1..Len(Samples)

\* Start of the hour of now.
FloorHour ==
    CHOOSE h \in 0..now :
        h % TicksPerHour = 0 /\ h <= now /\ now < h + TicksPerHour

DayOf(j) == Samples[j].datetime \div (24 * TicksPerHour)

Today == now \div (24 * TicksPerHour)

Sorted == \A j \in 1..(Len(Samples) - 1) :
              Samples[j].datetime <= Samples[j + 1].datetime

StrictlySorted == \A j \in 1..(Len(Samples) - 1) :
                      Samples[j].datetime < Samples[j + 1].datetime

Bad(j) ==
    \/ Samples[j].values.temperature_2m = << >>
    \/ Samples[j].values.relative_humidity_2m = << >>

\* First sample not earlier than the start of the hour (Len + 1 if none).
WindowStart ==
    IF \E j \in Indices : Samples[j].datetime >= FloorHour
    THEN CHOOSE j \in Indices :
             /\ Samples[j].datetime >= FloorHour
             /\ \A i \in 1..(j - 1) : Samples[i].datetime < FloorHour
    ELSE Len(Samples) + 1

Dates == {DayOf(j) : j \in Indices}

NthDate(k) == CHOOSE D \in Dates : Cardinality({E \in Dates : E < D}) = k - 1

OfDate(D) == {j \in Indices : DayOf(j) = D}

\* The f64 sums of the temperatures and of the relative humidities of the
\* samples lo .. hi, added to 0.0 one by one in the order of the input.
RECURSIVE SumTemp(_, _)
SumTemp(lo, hi) ==
    IF hi < lo THEN Zero(0)
    ELSE F64Add(SumTemp(lo, hi - 1), Samples[hi].values.temperature_2m[1])

RECURSIVE SumRh(_, _)
SumRh(lo, hi) ==
    IF hi < lo THEN Zero(0)
    ELSE F64Add(SumRh(lo, hi - 1), Samples[hi].values.relative_humidity_2m[1])

\* x < y
F64Lt(x, y) ==
    LET mag(a, b) ==  \* |a| < |b| for finite non-zero a, b
            LET la == a.e + BigBitLen(a.m)
                lb == b.e + BigBitLen(b.m)
                e  == IF a.e < b.e THEN a.e ELSE b.e
            IN  IF la # lb THEN la < lb
                ELSE BigCmp(BigShl(a.m, a.e - e), BigShl(b.m, b.e - e)) < 0
        lt(a, b) ==   \* |a| < |b|
            IF a.k = "inf" THEN FALSE
            ELSE IF b.k = "inf" THEN TRUE
            ELSE IF IsZero(b) THEN FALSE
            ELSE IF IsZero(a) THEN TRUE
            ELSE mag(a, b)
    IN  IF x.k = "nan" \/ y.k = "nan" THEN FALSE
        ELSE IF IsZero(x) /\ IsZero(y) THEN FALSE
        ELSE IF x.s = 1 /\ y.s = 0 THEN TRUE
        ELSE IF x.s = 0 /\ y.s = 1 THEN FALSE
        ELSE IF x.s = 0 THEN lt(x, y) ELSE lt(y, x)

\* 2^-48: the floating-point tolerance of the properties, room for the
\* roundings (2^-53 each) of the longest chain of operations compared.
Tolerance == F64(0, -100, BigShl(<< 1 >>, 52))

F64Abs(x) == [x EXCEPT !.s = 0]

\* a and b are equal up to rounding: |a - b| <= Tolerance * |b|.
Close(a, b) ==
    \/ a = b
    \/ /\ IsFinite(a) /\ IsFinite(b)
       /\ ~ F64Lt(F64Mul(Tolerance, F64Abs(b)), F64Abs(F64Sub(a, b)))

\* The text of a number of tenths with one digit after the point: 163 is
\* shown as 16.3.
RECURSIVE Digits(_)
Digits(n) == IF n < 10 THEN << n >> ELSE Digits(n \div 10) \o << n % 10 >>

Shown(tenths) ==
    LET a == IF tenths < 0 THEN -tenths ELSE tenths
    IN  [neg |-> tenths < 0, int |-> Digits(a \div 10), frac |-> a % 10,
         special |-> ""]

\* The row the last step has added to its table, if it has added one: its
\* forecast item, the values of its 13 columns and its cells.  Rows are only
\* ever appended, so what holds of the newest row of every state holds of
\* every row of both tables.
NewRows ==
    IF pc = "hourly" /\ log_h # << >>
    THEN {[item  |-> log_h[Len(log_h)].item,
           rh    |-> log_h[Len(log_h)].rh,
           cells |-> t_h.rows[Len(log_h)]]}
    ELSE IF pc = "daily" /\ log_d # << >>
    THEN {[item  |-> log_d[Len(log_d)].item,
           rh    |-> log_d[Len(log_d)].rh,
           cells |-> t_d.rows[Len(log_d)]]}
    ELSE {}

\* The 13 reference temperatures 16.0, 16.5 .. 22.0 and their saturation
\* pressures.
T_ref == [c \in 1..13 |-> Dec(155 + 5 * c)]

SatRef == [c \in 1..13 |-> celsius_sat_pres(T_ref[c])]

\* 100 * ((RH / 100) * sat_T) / sat_ref, for the saturation pressures sat_T
\* of the observed and sat_ref of the reference temperature.
Reference(RH, sat_T, sat_ref) ==
    F64Mul(FromInt(100),
           F64Div(F64Mul(F64Div(RH, FromInt(100)), sat_T), sat_ref))

HourlyPrinted == Len(stdout) >= 2

(***************************************************************************)
(* Properties.                                                             *)
(***************************************************************************)

\* C1: for a forecast sorted strictly ascending by datetime, the hourly
\* table has at most 10 rows, every row is the row of a sample not earlier
\* than the start of the hour of now, the rows' samples have strictly
\* increasing datetimes and are consecutive samples of the input, and each
\* row carries the values of its sample.
C1_HourlyWindow ==
    StrictlySorted =>
        /\ Len(t_h.rows) <= 10
        /\ Len(log_h) = Len(t_h.rows)
        /\ \A i \in 1..Len(log_h) :
              /\ log_h[i].src \in Indices
              /\ Samples[log_h[i].src].datetime >= FloorHour
              /\ log_h[i].item.temperature
                     = Samples[log_h[i].src].values.temperature_2m[1]
              /\ log_h[i].item.relative_humidity
                     = Samples[log_h[i].src].values.relative_humidity_2m[1]
        /\ \A i \in 1..(Len(log_h) - 1) :
              /\ log_h[i + 1].src = log_h[i].src + 1
              /\ Samples[log_h[i].src].datetime
                     < Samples[log_h[i + 1].src].datetime

\* C1 witness: a strictly sorted forecast whose printed hourly table has 10
\* rows although an earlier sample was skipped and a later one is left.
C1_Witness ==
    /\ StrictlySorted
    /\ HourlyPrinted
    /\ Len(t_h.rows) = 10
    /\ log_h[1].src > 1
    /\ log_h[10].src < Len(Samples)

\* C9: for any forecast, sorted or not, the hourly rows are the first
\* min(10, n) samples of the suffix that starts at the first sample not
\* earlier than the start of the hour of now (n its length); a later sample
\* is kept even when it is earlier than that instant.
C9_SkipWhileNotFilter ==
    LET n == Len(Samples) + 1 - WindowStart
    IN  /\ Len(log_h) <= Min(10, n)
        /\ \A i \in 1..Len(log_h) : log_h[i].src = WindowStart + i - 1
        /\ HourlyPrinted => Len(log_h) = Min(10, n)

\* C9 witness: a printed hourly table with a row, after the first, whose
\* sample is earlier than the start of the hour of now.
C9_Witness ==
    /\ HourlyPrinted
    /\ \E i \in 2..Len(log_h) : Samples[log_h[i].src].datetime < FloorHour

\* C8: empty and short forecasts are not errors.  The program panics only
\* on a sample that lacks a value; a finished run has printed DOC_STR and
\* both tables, each with its header; for a sorted forecast the hourly table
\* has exactly one row per sample not earlier than the start of the hour of
\* now, up to 10, and the daily table exactly one row per date, up to 7, so
\* an empty or absent forecast gives two tables without rows.
C8_EmptyAndShort ==
    /\ pc = "panicked" => \E j \in Indices : Bad(j)
    /\ pc = "done" =>
          /\ stdout = << DOC_STR, t_h, t_d >>
          /\ Len(t_h.header) = 14 /\ t_h.header[1] = "Hourly"
          /\ Len(t_d.header) = 14 /\ t_d.header[1] = "Daily"
          /\ Sorted =>
                /\ Len(t_h.rows) =
                      Min(10, Cardinality({j \in Indices :
                                  Samples[j].datetime >= FloorHour}))
                /\ Len(t_d.rows) = Min(7, Cardinality(Dates))
          /\ Samples = << >> => t_h.rows = << >> /\ t_d.rows = << >>

\* C8 witness: the forecast has no hourly part and both tables have been
\* printed without rows.
C8_Witness ==
    /\ hourly = None
    /\ pc = "done"
    /\ Len(stdout) = 3
    /\ stdout[2].rows = << >>
    /\ stdout[3].rows = << >>

\* C8 witness of the short case: fewer samples than rows, all of them shown.
C8_WitnessShort ==
    /\ pc = "done"
    /\ Sorted
    /\ Len(t_h.rows) \in 1..9
    /\ Len(t_d.rows) \in 1..6

\* C6 as stated: no row of the daily table is for a date earlier than the
\* date of now, and the daily table has at most 7 rows.
C6_Original ==
    Sorted =>
        /\ Len(t_d.rows) <= 7
        /\ \A k \in 1..Len(log_d) : log_d[k].group.key >= Today

\* C7 as stated: a sample that lacks a value makes the program fail before
\* any row is computed and before any table is printed.
C7_Original ==
    /\ pc = "panicked" => stdout = << >> /\ log_h = << >> /\ log_d = << >>
    /\ pc = "done" => \A j \in Indices : ~ Bad(j)

\* C2: for a forecast sorted ascending by datetime, the k-th daily row is
\* the row of the k-th distinct date of the input, in ascending order, and
\* its temperature and relative humidity are the arithmetic means over
\* exactly the samples of that date, each counted once: the f64 sum of the n
\* samples of the date, in the order of the input, divided by n, bit for
\* bit, so that n times the mean is the sum up to f64 rounding; the row's
\* label shows the mean temperature to one decimal; and the finished table
\* has one row per date, 7 at most.
C2_DailyMeans ==
    Sorted =>
        /\ \A k \in 1..Len(log_d) :
              LET D  == NthDate(k)
                  n  == Cardinality(OfDate(D))
                  lo == CHOOSE j \in OfDate(D) : \A i \in OfDate(D) : j <= i
                  hi == CHOOSE j \in OfDate(D) : \A i \in OfDate(D) : i <= j
                  r  == log_d[k]
              IN  /\ r.group.key = D
                  /\ r.item.datetime_repr = << D % 7, D % 365 >>
                  /\ n >= 1 /\ hi - lo + 1 = n
                  /\ r.item.temperature
                         = F64Div(SumTemp(lo, hi), FromInt(n))
                  /\ r.item.relative_humidity
                         = F64Div(SumRh(lo, hi), FromInt(n))
                  /\ Close(F64Mul(r.item.temperature, FromInt(n)),
                           SumTemp(lo, hi))
                  /\ Close(F64Mul(r.item.relative_humidity, FromInt(n)),
                           SumRh(lo, hi))
                  /\ t_d.rows[k][1]
                         = << << D % 7, D % 365 >>, Fmt1(r.item.temperature) >>
        /\ pc = "done" => Len(log_d) = Min(7, Cardinality(Dates))

\* C2 witness: a finished daily table of a sorted forecast of more than 7
\* dates, with a row averaging several samples of different temperatures
\* and a row of a date with a single sample.
C2_Witness ==
    /\ Sorted
    /\ pc = "done"
    /\ Cardinality(Dates) > 7
    /\ \E k \in 1..Len(log_d) :
          /\ F64Lt(FromInt(1), log_d[k].count)
          /\ log_d[k].item.temperature
                 # Samples[log_d[k].group.first].values.temperature_2m[1]
    /\ \E k \in 1..Len(log_d) : log_d[k].count = FromInt(1)

\* C2 witness of the rounding: the day of the two samples 16.3 and 20.6,
\* whose mean as computed is above the f64 nearest to 18.45 and is shown as
\* 18.5.
C2_WitnessRounded ==
    \E k \in 1..Len(log_d) :
        LET g == log_d[k].group
        IN  /\ g.last = g.first + 1
            /\ Samples[g.first].values.temperature_2m[1] = Dec(163)
            /\ Samples[g.last].values.temperature_2m[1] = Dec(206)
            /\ F64Lt(F64Div(FromInt(1845), FromInt(100)),
                     log_d[k].item.temperature)
            /\ t_d.rows[k][1][2] = Shown(185)

\* C10: for any forecast, every average_daily divides by a count of at
\* least 1: its group is a non-empty maximal run of consecutive samples of
\* one date, count is the number of samples of that run, and the means are
\* finite; with an empty forecast average_daily is never called.
C10_CountAtLeastOne ==
    /\ \A k \in 1..Len(log_d) :
          LET g == log_d[k].group
          IN  /\ ~ F64Lt(log_d[k].count, FromInt(1))
              /\ g.first \in Indices /\ g.last \in Indices
              /\ log_d[k].count = FromInt(g.last - g.first + 1)
              /\ \A j \in g.first..g.last : DayOf(j) = g.key
              /\ g.first = 1 \/ DayOf(g.first - 1) # g.key
              /\ g.last = Len(Samples) \/ DayOf(g.last + 1) # g.key
              /\ IsFinite(log_d[k].item.temperature)
              /\ IsFinite(log_d[k].item.relative_humidity)
    /\ Samples = << >> => log_d = << >>

\* C10 witness: a finished daily table whose last row averages the single
\* sample of a last day, after a row averaging several samples.
C10_Witness ==
    /\ pc = "done"
    /\ Len(log_d) >= 2
    /\ log_d[Len(log_d)].count = FromInt(1)
    /\ log_d[Len(log_d)].group.last = Len(Samples)
    /\ F64Lt(FromInt(1), log_d[Len(log_d) - 1].count)

\* C3: every row of either table has one cell per reference temperature, in
\* the order of the 13 header temperatures 16.0, 16.5 .. 22.0, and the value
\* of the column of T_ref is
\* 100 * ((RH / 100) * saturation_pressure(T)) / saturation_pressure(T_ref)
\* for the row's temperature T and relative humidity RH: the code's
\* RH * sat(T) / sat(T_ref) agrees with it up to f64 rounding, and the cell
\* shows the code's value to one decimal.
C3_ProjectionFormula ==
    /\ \A c \in 1..13 :
          /\ t_h.header[c + 1] = << Shown(155 + 5 * c), "C" >>
          /\ t_d.header # << >> => t_d.header[c + 1] = t_h.header[c + 1]
    /\ \A row \in NewRows :
          LET sat_T == celsius_sat_pres(row.item.temperature)
          IN  /\ Len(row.rh) = 13
              /\ Len(row.cells) = 14
              /\ \A c \in 1..13 :
                    /\ Close(row.rh[c],
                             Reference(row.item.relative_humidity, sat_T,
                                       SatRef[c]))
                    /\ row.cells[c + 1] = << Fmt1(row.rh[c]), "%" >>

\* C3 witness: both tables finished, with an hourly row and a daily row that
\* averages several samples, and a column whose value differs from the
\* reference formula's in the last bits.
C3_Witness ==
    /\ pc = "done"
    /\ Len(log_h) >= 1
    /\ \E k \in 1..Len(log_d) : F64Lt(FromInt(1), log_d[k].count)
    /\ \E i \in 1..Len(log_h) : \E c \in 1..13 :
          log_h[i].rh[c]
              # Reference(log_h[i].item.relative_humidity,
                          celsius_sat_pres(log_h[i].item.temperature),
                          SatRef[c])

\* C4: in a row whose temperature is one of the reference temperatures, the
\* column of that temperature holds the row's own relative humidity up to
\* f64 rounding, and its cell shows the relative humidity to one decimal.
C4_ProjectionIdentity ==
    \A row \in NewRows :
        \A c \in 1..13 :
            row.item.temperature = T_ref[c] =>
                /\ Close(row.rh[c], row.item.relative_humidity)
                /\ row.cells[c + 1] = << Fmt1(row.item.relative_humidity), "%" >>

\* C4 witness: an hourly row at 22.0 degrees and 50 percent whose last
\* column shows 50.0, and a daily row whose mean temperature 20.0 is a
\* reference temperature.
C4_Witness ==
    /\ \E i \in 1..Len(log_h) :
          /\ log_h[i].item.temperature = Dec(220)
          /\ log_h[i].item.relative_humidity = FromInt(50)
          /\ t_h.rows[i][14] = << Shown(500), "%" >>
    /\ \E k \in 1..Len(log_d) :
          /\ log_d[k].count = FromInt(2)
          /\ log_d[k].item.temperature = FromInt(20)
          /\ log_d[k].item.relative_humidity = FromInt(60)

\* C4 witness of the rounding: a row at 20.0 degrees and 63 percent whose
\* column of 20.0 holds a value that is not 63 bit for bit and is shown as
\* 63.0.
C4_WitnessRounded ==
    \E i \in 1..Len(log_h) :
        /\ log_h[i].item.temperature = FromInt(20)
        /\ log_h[i].item.relative_humidity = FromInt(63)
        /\ log_h[i].rh[9] # FromInt(63)
        /\ t_h.rows[i][10] = << Shown(630), "%" >>

====
